---- MODULE Spec2Model ----
(***************************************************************************)
(* Model of hanzi_flashcards.py: a Streamlit flashcard viewer.  The        *)
(* program state is the Streamlit session state (order, pos, order_total,  *)
(* current_idx, reveal), the uploaded document and the option widgets.     *)
(* Every user interaction runs the widget's on_click callback (if any)     *)
(* and then reruns the whole script top to bottom.                         *)
(***************************************************************************)
EXTENDS Integers, Sequences, FiniteSets, TLC

\* ---------------------------------------------------------------- bounds
\* Largest page count of an uploaded document.
MaxPages == 3

\* ------------------------------------------------------------- constants
\* Result markers of a step: next_index was not called, next_index raised.
NoCall == -2
Raised == -1
\* Value of the uploader while no file is selected.
NoUpload == -1

\* An uploaded document is represented by its page count (line 86), the
\* only property of the file that the deck logic reads.
Documents == 0..MaxPages

VARIABLES
    uploaded,             \* page count of the uploaded file, or NoUpload
    no_repeats,           \* checkbox "Barajar todas las paginas sin repeticion"
    keep_answer_visible,  \* checkbox "Mantener respuesta visible ..."
    session_state,        \* st.session_state
    ui,                   \* how far the last script run got
    ret,                  \* history: result of the last step's next_index call
    cycleDrawn,           \* history: no-repeat draws since the last init_deck
    run,                  \* history: results of the current run's draws
    runKind,              \* history: how the current run started
    runN,                 \* history: page count the current run draws on
    freshDeck,            \* history: init_deck called since the last replacement
    inits,                \* history: init_deck calls made by the last step
    tracking,             \* history: whether window is being recorded
    window                \* history: the latest 2n-1 no-repeat draws

vars == <<uploaded, no_repeats, keep_answer_visible, session_state, ui,
          ret, cycleDrawn, run, runKind, runN, freshDeck, inits, tracking,
          window>>

\* ----------------------------------------------------------- pure helpers
Range(s) == {s[i] : i \in 1..Len(s)}

Distinct(s) == \A i, j \in 1..Len(s) : i # j => s[i] # s[j]

\* s lists every index of 0..n-1 exactly once.
IsPermutationOf(s, n) == Len(s) = n /\ Distinct(s) /\ Range(s) = 0..(n - 1)

\* A mis-shuffle that samples with replacement.
ShufflesWithReplacement(total_pages) == [1..total_pages -> 0..(total_pages - 1)]

\* All orderings of range(n), for every page count of the model.
Orderings ==
    [n \in 0..MaxPages |->
        {f \in [1..n -> 0..(n - 1)] : \A i, j \in 1..n : i # j => f[i] # f[j]}]

\* list(range(total_pages)) followed by random.shuffle: any ordering.
Shuffles(total_pages) == Orderings[total_pages]

\* The session state before anything was stored in it.  Absent keys hold a
\* fixed placeholder and are guarded by the has_* flags ("key in state").
EmptySession ==
    [has_order |-> FALSE, order |-> <<>>, pos |-> 0, order_total |-> -1,
     has_current_idx |-> FALSE, current_idx |-> 0, reveal |-> FALSE]

\* init_deck that forgets to rewind the cursor.
init_deck_keep_pos(ss, total_pages, order) ==
    [ss EXCEPT !.has_order = TRUE, !.order = order,
               !.order_total = total_pages]

init_deck(ss, total_pages, order) ==
    [ss EXCEPT !.has_order = TRUE, !.order = order, !.pos = 0,
               !.order_total = total_pages]

\* Rebuild only when no order exists (ignores a changed page count).
NeedsInitOnlyWhenMissing(ss, total_pages) == ~ss.has_order

\* Line 74: no order yet, or the order was built for another page count.
NeedsInit(ss, total_pages) ==
    ~ss.has_order \/ ss.order_total # total_pages

\* A deck that is never found exhausted.
ExhaustedNever(ss) == FALSE

\* Exhaustion test that is off by one.
ExhaustedOffByOne(ss) == ss.pos > Len(ss.order)

\* Line 76: the cursor has reached the end of the order.
Exhausted(ss) == ss.pos >= Len(ss.order)

\* A draw that advances the cursor by two.
TakeCardSkipOne(ss) ==
    IF ss.pos < Len(ss.order)
    THEN [ss |-> [ss EXCEPT !.pos = @ + 2], ret |-> ss.order[ss.pos + 1]]
    ELSE [ss |-> ss, ret |-> Raised]

\* A draw that removes the drawn card from the order instead of advancing.
TakeCardPopping(ss) ==
    IF ss.pos < Len(ss.order)
    THEN [ss |-> [ss EXCEPT !.order =
                      SubSeq(@, 1, ss.pos) \o SubSeq(@, ss.pos + 2, Len(@))],
          ret |-> ss.order[ss.pos + 1]]
    ELSE [ss |-> ss, ret |-> Raised]

\* A draw that forgets to advance the cursor.
TakeCardKeepPos(ss) ==
    IF ss.pos < Len(ss.order)
    THEN [ss |-> ss, ret |-> ss.order[ss.pos + 1]]
    ELSE [ss |-> ss, ret |-> Raised]

\* Lines 78-80: idx = order[pos]; pos += 1; return idx.  Indexing past the
\* end of the list raises IndexError before pos is touched.
TakeCard(ss) ==
    IF ss.pos < Len(ss.order)
    THEN [ss |-> [ss EXCEPT !.pos = @ + 1], ret |-> ss.order[ss.pos + 1]]
    ELSE [ss |-> ss, ret |-> Raised]

\* A random draw that yields 0 on an empty range instead of raising.
RandomDrawZeroOnEmpty(ss, total_pages, rnd) ==
    [ss |-> ss, ret |-> IF total_pages > 0 THEN rnd ELSE 0]

\* A random draw that also moves the deck cursor.
RandomDrawAdvancingPos(ss, total_pages, rnd) ==
    IF total_pages > 0
    THEN [ss |-> [ss EXCEPT !.pos = @ + 1], ret |-> rnd]
    ELSE [ss |-> ss, ret |-> Raised]

\* Line 82: random.randrange(0, total_pages); an empty range raises
\* ValueError.  The session state is not touched.
RandomDraw(ss, total_pages, rnd) ==
    IF total_pages > 0
    THEN [ss |-> ss, ret |-> rnd]
    ELSE [ss |-> ss, ret |-> Raised]

\* Lines 72-82.  shuffle1 and shuffle2 are the outcomes of the (at most two)
\* shuffles, rnd the outcome of randrange.  The result carries the session
\* state left behind, and the returned index or Raised.
next_index(ss, total_pages, nr, shuffle1, shuffle2, rnd) ==
    IF nr
    THEN LET s1 == IF NeedsInit(ss, total_pages)
                   THEN init_deck(ss, total_pages, shuffle1) ELSE ss
             s2 == IF Exhausted(s1)
                   THEN init_deck(s1, total_pages, shuffle2) ELSE s1
         IN  TakeCard(s2)
    ELSE RandomDraw(ss, total_pages, rnd)

\* Number of init_deck calls next_index makes from ss.
InitCalls(ss, total_pages, nr, shuffle1) ==
    IF ~nr THEN 0
    ELSE LET first == NeedsInit(ss, total_pages)
             s1 == IF first THEN init_deck(ss, total_pages, shuffle1) ELSE ss
         IN  (IF first THEN 1 ELSE 0) + (IF Exhausted(s1) THEN 1 ELSE 0)

\* randrange outcomes; a single dummy when the range is empty.
RandomChoices(total_pages) ==
    IF total_pages > 0 THEN 0..(total_pages - 1) ELSE {0}

\* Every result next_index can produce from ss: one per outcome of the
\* shuffles and of randrange that the call actually executes.  Each result
\* is tagged with the number of init_deck calls it made.
Outcomes(ss, total_pages, nr) ==
    LET S1 == IF nr /\ NeedsInit(ss, total_pages)
              THEN Shuffles(total_pages) ELSE {<<>>}
        S2(sh1) ==
            LET s1 == IF NeedsInit(ss, total_pages)
                      THEN init_deck(ss, total_pages, sh1) ELSE ss
            IN  IF nr /\ Exhausted(s1) THEN Shuffles(total_pages) ELSE {<<>>}
        R  == IF nr THEN {0} ELSE RandomChoices(total_pages)
    IN  UNION { UNION { { [res   |-> next_index(ss, total_pages, nr, sh1, sh2, rnd),
                           inits |-> InitCalls(ss, total_pages, nr, sh1)] :
                          rnd \in R } : sh2 \in S2(sh1) } : sh1 \in S1 }

\* Lines 41-42 / 101: load_page raises for an index outside the document.
PageInDocument(page_index, total) == 0 <= page_index /\ page_index < total

\* _next_card that always hides the answer.
next_card_always_hide(ss, drawn, keep) ==
    [ss EXCEPT !.has_current_idx = TRUE, !.current_idx = drawn,
               !.reveal = FALSE]

\* Lines 121-124, after next_index returned drawn.
next_card(ss, drawn, keep) ==
    LET s1 == [ss EXCEPT !.has_current_idx = TRUE, !.current_idx = drawn]
    IN  IF ~keep THEN [s1 EXCEPT !.reveal = FALSE] ELSE s1

\* A first card shown with its answer.
first_card_revealed(ss, drawn) ==
    [ss EXCEPT !.has_current_idx = TRUE, !.current_idx = drawn,
               !.reveal = TRUE]

\* Lines 89-91, after next_index returned drawn.
first_card(ss, drawn) ==
    [ss EXCEPT !.has_current_idx = TRUE, !.current_idx = drawn,
               !.reveal = FALSE]

\* A reveal that also jumps back to the first page.
reveal_answer_first_page(ss) == [ss EXCEPT !.reveal = TRUE, !.current_idx = 0]

\* Line 117.
reveal_answer(ss) == [ss EXCEPT !.reveal = TRUE]

\* Whether the script run draws the first card (line 89).
NeedsFirstCard(ss) == ~ss.has_current_idx

\* How far a script run gets, given the session state it leaves (lines
\* 84-143): no file, the first draw raised, the render raised, or complete.
ScriptEnd(ss, up) ==
    IF up = NoUpload THEN "no_upload"
    ELSE IF ~ss.has_current_idx THEN "draw_failed"
    ELSE IF ~PageInDocument(ss.current_idx, up) THEN "render_failed"
    ELSE "ok"

\* Lines 94-97: the sidebar is reached when a file is uploaded and the first
\* draw did not raise; it shows the progress when no-repeat mode is on.
ProgressShown(end, nr) == end \in {"ok", "render_failed"} /\ nr

\* Line 97: st.session_state.get('pos', 0).
ProgressDrawn(ss) == IF ss.has_order THEN ss.pos ELSE 0

\* Lines 127-131: the right half is drawn by a complete run when
\* st.session_state.get("reveal", False) holds.
AnswerShown(ss, end) == end = "ok" /\ ss.reveal

\* ------------------------------------------------------ history variables
\* Bookkeeping for a step whose next_index call, made with page count total
\* in mode nr, produced outcome o.  A run is a maximal series of no-repeat
\* calls on one page count: it starts at a reset click (empty), at the
\* first no-repeat call, at a call whose page count differs from the run's,
\* and at the call that follows a run of runN results.
LogDraw(total, nr, o, fresh) ==
    /\ ret' = o.res.ret
    /\ inits' = o.inits
    /\ UNCHANGED tracking
    /\ IF ~nr
       THEN /\ UNCHANGED <<cycleDrawn, run, runKind, runN, window>>
            /\ freshDeck' = fresh
       ELSE /\ freshDeck' = (fresh \/ o.inits > 0)
            /\ window' =
                 IF ~tracking \/ o.res.ret = Raised THEN window
                 ELSE IF Len(window) < 2 * total - 1
                 THEN Append(window, o.res.ret)
                 ELSE Append(Tail(window), o.res.ret)
            /\ cycleDrawn' =
                 IF o.res.ret = Raised
                 THEN (IF o.inits > 0 THEN <<>> ELSE cycleDrawn)
                 ELSE IF o.inits > 0 THEN <<o.res.ret>>
                 ELSE Append(cycleDrawn, o.res.ret)
            /\ runN' = total
            /\ IF runKind = "none"
               THEN run' = <<o.res.ret>> /\ runKind' = "first"
               ELSE IF total # runN
               THEN run' = <<o.res.ret>> /\ runKind' = "changed"
               ELSE IF Len(run) >= runN
               THEN run' = <<o.res.ret>> /\ runKind' = "exhausted"
               ELSE run' = Append(run, o.res.ret) /\ UNCHANGED runKind

LogNoDraw(fresh) ==
    /\ ret' = NoCall
    /\ inits' = 0
    /\ UNCHANGED <<cycleDrawn, run, runKind, runN, tracking, window>>
    /\ freshDeck' = fresh

\* --------------------------------------------------------- the script run
\* Lines 84-143: one run of the script on session state ss with the
\* uploader holding up and the no-repeat checkbox holding nr.
Rerun(ss, up, nr, fresh) ==
    IF up # NoUpload /\ NeedsFirstCard(ss)
    THEN \E o \in Outcomes(ss, up, nr) :
            LET after == IF o.res.ret = Raised THEN o.res.ss
                         ELSE first_card(o.res.ss, o.res.ret)
            IN  /\ session_state' = after
                /\ ui' = ScriptEnd(after, up)
                /\ LogDraw(up, nr, o, fresh)
    ELSE /\ session_state' = ss
         /\ ui' = ScriptEnd(ss, up)
         /\ LogNoDraw(fresh)

Init ==
    /\ uploaded = NoUpload
    /\ no_repeats = TRUE
    /\ keep_answer_visible = FALSE
    /\ session_state = EmptySession
    /\ ui = "no_upload"
    /\ ret = NoCall
    /\ cycleDrawn = <<>>
    /\ run = <<>>
    /\ runKind = "none"
    /\ runN = -1
    /\ freshDeck = FALSE
    /\ inits = 0
    /\ tracking = FALSE
    /\ window = <<>>

\* ------------------------------------------------------------ the actions
\* The user selects a file (first upload or replacement); line 37, 84-91.
\* Selecting a file while one is uploaded replaces the document, also
\* when the new file has the same page count.
Upload ==
    \E d \in Documents :
        /\ uploaded' = d
        /\ UNCHANGED <<no_repeats, keep_answer_visible>>
        /\ Rerun(session_state, d, no_repeats,
                 IF uploaded # NoUpload THEN FALSE ELSE freshDeck)

\* The user clears the uploader; line 37, 142-143.
RemoveUpload ==
    /\ uploaded # NoUpload
    /\ uploaded' = NoUpload
    /\ UNCHANGED <<no_repeats, keep_answer_visible>>
    /\ Rerun(session_state, NoUpload, no_repeats, freshDeck)

\* The user flips the no-repeat checkbox; lines 27-30.
ToggleNoRepeats ==
    /\ no_repeats' = ~no_repeats
    /\ UNCHANGED <<uploaded, keep_answer_visible>>
    /\ Rerun(session_state, uploaded, ~no_repeats, freshDeck)

\* The user flips the keep-answer-visible checkbox; lines 32-35.
ToggleKeepAnswer ==
    /\ keep_answer_visible' = ~keep_answer_visible
    /\ UNCHANGED <<uploaded, no_repeats>>
    /\ Rerun(session_state, uploaded, no_repeats, freshDeck)

\* "Mostrar Respuesta"; lines 113-118.  Rendered only by a complete run.
RevealClick ==
    /\ ui = "ok"
    /\ UNCHANGED <<uploaded, no_repeats, keep_answer_visible>>
    /\ Rerun(reveal_answer(session_state), uploaded, no_repeats, freshDeck)

\* "Nueva tarjeta"; lines 121-125.  Rendered only by a complete run, so
\* the callback's total is the page count of the uploaded document.
NextClick ==
    /\ ui = "ok"
    /\ UNCHANGED <<uploaded, no_repeats, keep_answer_visible>>
    /\ \E o \in Outcomes(session_state, uploaded, no_repeats) :
          LET after == IF o.res.ret = Raised THEN o.res.ss
                       ELSE next_card(o.res.ss, o.res.ret,
                                      keep_answer_visible)
          IN  /\ session_state' = after
              /\ ui' = ScriptEnd(after, uploaded)
              /\ LogDraw(uploaded, no_repeats, o, freshDeck)

\* "Reiniciar baraja"; line 98.  The sidebar is rendered before the page
\* render, so the button also exists when the render raised.
ResetClick ==
    /\ ui \in {"ok", "render_failed"}
    /\ UNCHANGED <<uploaded, no_repeats, keep_answer_visible>>
    /\ \E order \in Shuffles(uploaded) :
          LET after == init_deck(session_state, uploaded, order)
          IN  /\ session_state' = after
              /\ ui' = ScriptEnd(after, uploaded)
              /\ ret' = NoCall
              /\ cycleDrawn' = <<>>
              /\ run' = <<>>
              /\ runKind' = "reset"
              /\ runN' = uploaded
              /\ freshDeck' = TRUE
              /\ inits' = 1
              /\ window' = <<>>
              /\ UNCHANGED tracking

Next ==
    \/ Upload
    \/ RemoveUpload
    \/ ToggleNoRepeats
    \/ ToggleKeepAnswer
    \/ RevealClick
    \/ NextClick
    \/ ResetClick

Spec == Init /\ [][Next]_vars

TypeOK ==
    /\ uploaded \in Documents \cup {NoUpload}
    /\ no_repeats \in BOOLEAN
    /\ keep_answer_visible \in BOOLEAN
    /\ session_state.pos \in 0..MaxPages
    /\ session_state.order_total \in -1..MaxPages
    /\ session_state.current_idx \in 0..MaxPages
    /\ ui \in {"no_upload", "draw_failed", "render_failed", "ok"}
    /\ ret \in {NoCall, Raised} \cup 0..(MaxPages - 1)

\* ------------------------------------------------- vocabulary of the claims
\* A step that called next_index: the advance button, or a script run that
\* found no current_idx in the session state (line 89).
DrawCall == ret' # NoCall

\* A step of the advance button.  The buttons exist only after a complete
\* script run, and a script run that follows one finds current_idx and
\* draws nothing, so a call made from such a state is _next_card's.
AdvanceStep == ui = "ok" /\ DrawCall

\* The deck part of the session state.
Deck(ss) == <<ss.has_order, ss.order, ss.pos, ss.order_total>>

\* Every call of the current run returned an index.
RunReturned == Raised \notin Range(run)

\* ------------------------------------------------------------------- C1
\* C1: on n > 0 pages, the n no-repeat calls of a run that starts with no
\* deck order (or with a deck just built for n) all return, and together
\* they return each index of 0..n-1 exactly once.
C1_FirstCycleIsPermutation ==
    (runKind \in {"first", "changed"} /\ runN > 0) =>
        /\ RunReturned
        /\ Len(run) = runN => IsPermutationOf(run, runN)

C1_Witness ==
    /\ runKind = "first"
    /\ runN = MaxPages
    /\ Len(run) = runN
    /\ session_state.pos = runN

\* ------------------------------------------------------------------- C2
\* The call that follows a complete run of n returned draws.
C2_CallAfterFullRun ==
    /\ DrawCall
    /\ no_repeats'
    /\ runKind # "none"
    /\ runN > 0
    /\ uploaded' = runN
    /\ Len(run) = runN
    /\ RunReturned

\* C2: the (n+1)-th no-repeat call on a fixed n-page document does not
\* raise: it reshuffles (a new permutation, pos back to 0 before the draw)
\* and returns the first card of the new order; the n calls of the run it
\* begins again return each index of 0..n-1 exactly once.
C2_ExhaustionStartsNewCycle ==
    /\ [][C2_CallAfterFullRun =>
            /\ ret' \in 0..(runN - 1)
            /\ runKind' = "exhausted"
            /\ IsPermutationOf(session_state'.order, runN)
            /\ session_state'.pos = 1
            /\ ret' = session_state'.order[1]]_vars
    /\ []((runKind = "exhausted" /\ runN > 0) =>
            /\ RunReturned
            /\ Len(run) = runN => IsPermutationOf(run, runN))

C2_Witness ==
    /\ runKind = "exhausted"
    /\ runN = MaxPages
    /\ Len(run) = runN
    /\ RunReturned

\* ------------------------------------------------------------------- C3
\* C3: between two consecutive calls of init_deck no page index is returned
\* by more than one no-repeat draw, whatever else happens in between.
C3_NoRepeatWithinCycle == Distinct(cycleDrawn)

C3_Witness ==
    /\ Len(cycleDrawn) = MaxPages
    /\ ~no_repeats
    /\ session_state.reveal

\* ------------------------------------------------------------------- C4
\* C4: a next_index call on zero pages raises and yields no index, in
\* no-repeat mode and in random mode alike.
C4_EmptyDeckRaises ==
    [][(DrawCall /\ uploaded' = 0) =>
          /\ ret' = Raised
          /\ session_state'.has_current_idx = session_state.has_current_idx
          /\ session_state'.current_idx = session_state.current_idx]_vars

\* The last script run raised in random mode, and the empty order left in
\* the session state shows an earlier run that raised in no-repeat mode.
C4_Witness ==
    /\ uploaded # NoUpload
    /\ uploaded = 0
    /\ ui = "draw_failed"
    /\ ret = Raised
    /\ ~no_repeats
    /\ session_state.has_order
    /\ session_state.order = <<>>

\* ------------------------------------------------------------------- C5
\* C5: the advance action leaves reveal false when keep_answer_visible is
\* off, and leaves reveal as it was when keep_answer_visible is on.
C5_AdvanceReveal ==
    [][AdvanceStep =>
          session_state'.reveal =
              (IF keep_answer_visible THEN session_state.reveal ELSE FALSE)]_vars

\* The last step drew a card and the answer is still shown: the step was
\* an advance with keep_answer_visible on (a first draw hides the answer).
C5_Witness ==
    /\ keep_answer_visible
    /\ session_state.reveal
    /\ ret \notin {NoCall, Raised}
    /\ ui = "ok"

\* ------------------------------------------------------------------- C6
\* A no-repeat call on a page count other than that of the previous
\* no-repeat call (or reset).
C6_CallAfterTotalChange ==
    /\ DrawCall
    /\ no_repeats'
    /\ runKind # "none"
    /\ session_state.has_order
    /\ uploaded' # runN
    /\ uploaded' > 0

\* C6: when the page count changed since the previous no-repeat draw, the
\* next draw rebuilds the deck first: it returns the first card of a new
\* permutation of [0, newTotal), which lies in [0, newTotal), whatever the
\* position was.
C6_TotalChangeRebuildsDeck ==
    [][C6_CallAfterTotalChange =>
          /\ IsPermutationOf(session_state'.order, uploaded')
          /\ session_state'.order_total = uploaded'
          /\ session_state'.pos = 1
          /\ ret' = session_state'.order[1]
          /\ ret' \in 0..(uploaded' - 1)]_vars

C6_Witness ==
    /\ runKind = "changed"
    /\ runN = MaxPages - 1
    /\ run = <<ret>>
    /\ ret \notin {NoCall, Raised}
    /\ session_state.order_total = runN

\* ------------------------------------------------------------------- C7
\* C7: whenever the script reaches the render, current_idx is a page of
\* the uploaded document.
C7_RenderedIndexInRange ==
    (uploaded # NoUpload /\ session_state.has_current_idx) =>
        PageInDocument(session_state.current_idx, uploaded)

\* ------------------------------------------------------------------- C8
\* C8: after a reset click on an n-page document (n > 0), from any deck
\* state, the next n no-repeat draws on n pages all return, and together
\* they return each index of 0..n-1 exactly once.
C8_ResetThenFullCycle ==
    (runKind = "reset" /\ runN > 0) =>
        /\ RunReturned
        /\ Distinct(run)
        /\ Len(run) = runN => IsPermutationOf(run, runN)

C8_Witness ==
    /\ runKind = "reset"
    /\ runN = MaxPages
    /\ Len(run) = runN
    /\ RunReturned

\* ------------------------------------------------------------------- C9
\* C9: a random-mode call on n > 0 pages returns an index of [0, n) and
\* leaves order, pos and order_total as they were.
C9_RandomDrawLeavesDeck ==
    [][(DrawCall /\ ~no_repeats' /\ uploaded' > 0) =>
          /\ ret' \in 0..(uploaded' - 1)
          /\ Deck(session_state') = Deck(session_state)]_vars

\* A deck in mid-cycle whose last no-repeat card is not the current card:
\* a random draw has replaced the card since.
C9_Witness ==
    /\ ~no_repeats
    /\ session_state.has_order
    /\ session_state.pos > 0
    /\ session_state.pos < Len(session_state.order)
    /\ Len(cycleDrawn) = session_state.pos
    /\ session_state.current_idx # cycleDrawn[Len(cycleDrawn)]
    /\ ret = session_state.current_idx

\* ------------------------------------------------------------------ C10
\* C10: after the document was replaced, whatever the page count of the
\* new one, a no-repeat draw is taken from an order built since the
\* replacement.
C10_ReplacementForcesFreshDeck ==
    [][(DrawCall /\ no_repeats' /\ ret' # Raised) => freshDeck']_vars

\* ------------------------------------------------------------------ C11
\* A step of the reset button: init_deck was called outside next_index.
ResetStep == ret' = NoCall /\ inits' = 1

\* C11: the reset action also resets the displayed card: after it,
\* current_idx is the first card of the new order and reveal is false.
C11_ResetRedrawsCard ==
    [][(ResetStep /\ uploaded > 0) =>
          /\ ~session_state'.reveal
          /\ session_state'.current_idx = session_state'.order[1]]_vars

\* ------------------------------------------------------------------ C12
\* C12: current_idx is written only by a step that called next_index, and
\* then holds the returned index; reveal, reset, the checkboxes and a rerun
\* leave it as it was.
C12_CurrentIdxOnlyByDraw ==
    [][(\/ session_state'.current_idx # session_state.current_idx
        \/ session_state'.has_current_idx # session_state.has_current_idx) =>
          /\ DrawCall
          /\ session_state'.has_current_idx
          /\ session_state'.current_idx = ret']_vars

\* Right after a reset click the card on display is not the first card of
\* the new order.
C12_Witness ==
    /\ ret = NoCall
    /\ inits = 1
    /\ ui = "ok"
    /\ session_state.pos = 0
    /\ session_state.current_idx # session_state.order[1]

\* ------------------------------------------------------------------ C13
\* C13: pos stays within 0..len(order); a no-repeat draw that returns
\* leaves pos one past the position it read in the order it drew from; a
\* step that called init_deck without drawing leaves pos at 0.
C13_PosWithinOrder ==
    /\ [](session_state.has_order =>
            /\ 0 <= session_state.pos
            /\ session_state.pos <= Len(session_state.order))
    /\ [][/\ (DrawCall /\ no_repeats' /\ ret' # Raised) =>
               /\ session_state'.pos =
                     (IF inits' > 0 THEN 0 ELSE session_state.pos) + 1
               /\ ret' = session_state'.order[session_state'.pos]
          /\ (inits' > 0 /\ ret' \in {NoCall, Raised}) =>
               session_state'.pos = 0]_vars

C13_Witness ==
    /\ session_state.has_order
    /\ session_state.pos = MaxPages
    /\ Len(session_state.order) = MaxPages
    /\ inits = 0
    /\ ret \notin {NoCall, Raised}

\* ------------------------------------------------------------------ C14
\* C14: an existing order is a permutation of [0, order_total), and only a
\* step that called init_deck changes order or order_total.
C14_OrderIsPermutation ==
    /\ [](session_state.has_order =>
            IsPermutationOf(session_state.order, session_state.order_total))
    /\ [][(\/ session_state'.has_order # session_state.has_order
           \/ session_state'.order # session_state.order
           \/ session_state'.order_total # session_state.order_total) =>
             inits' > 0]_vars

\* An order built for another page count is kept while nothing draws.
C14_Witness ==
    /\ session_state.has_order
    /\ session_state.order_total = MaxPages
    /\ session_state.pos = 2
    /\ uploaded \notin {NoUpload, MaxPages}
    /\ inits = 0

\* ------------------------------------------------------------------ C15
\* C15 as stated: whenever the script has run to the end on a non-empty
\* document in no-repeat mode, pos < len(order).
C15_ExhaustedNeverAtRest ==
    (/\ ui = "ok"
     /\ no_repeats
     /\ uploaded > 0
     /\ session_state.has_order) =>
        session_state.pos < Len(session_state.order)

\* C15 as amended: pos == len(order) is at rest exactly after every card of
\* the order has been drawn, and the next no-repeat draw resolves it by a
\* reshuffle before it indexes the order: that draw returns and leaves
\* pos at 1.
C15_ExhaustedResolvedByNextDraw ==
    /\ []((/\ session_state.has_order
           /\ Len(session_state.order) > 0
           /\ session_state.pos >= Len(session_state.order)) =>
            /\ session_state.pos = Len(session_state.order)
            /\ IsPermutationOf(cycleDrawn, Len(session_state.order)))
    /\ [][(/\ DrawCall
           /\ no_repeats'
           /\ uploaded' > 0
           /\ session_state.has_order
           /\ session_state.pos >= Len(session_state.order)) =>
             /\ ret' # Raised
             /\ inits' >= 1
             /\ session_state'.pos = 1]_vars

\* The draw that followed a full cycle has just reshuffled.
C15_Witness ==
    /\ runKind = "exhausted"
    /\ run = <<ret>>
    /\ inits = 1
    /\ session_state.pos = 1
    /\ Len(session_state.order) = MaxPages
    /\ session_state.order_total = uploaded

\* ------------------------------------------------------------------ C17
\* C17: whenever the progress indicator is shown, the count of drawn cards
\* lies between 0 and the page count of the uploaded document.
C17_ProgressWithinTotal ==
    ProgressShown(ui, no_repeats) =>
        /\ 0 <= ProgressDrawn(session_state)
        /\ ProgressDrawn(session_state) <= uploaded

\* ------------------------------------------------------------------ C18
\* A step of the reveal button.
RevealStep ==
    /\ ui = "ok"
    /\ ret' = NoCall
    /\ inits' = 0
    /\ session_state' = [session_state EXCEPT !.reveal = TRUE]
    /\ UNCHANGED <<uploaded, no_repeats, keep_answer_visible>>

\* C18: the first card is stored with reveal false; reveal goes from false
\* to true only in a step of the reveal button; the answer half is shown
\* only while reveal is true.
C18_RevealOnlyByButton ==
    /\ [][/\ (~session_state.has_current_idx
              /\ session_state'.has_current_idx) => ~session_state'.reveal
          /\ (~session_state.reveal /\ session_state'.reveal) =>
                RevealStep]_vars
    /\ [](AnswerShown(session_state, ui) => session_state.reveal)

C18_Witness ==
    /\ AnswerShown(session_state, ui)
    /\ ret = NoCall
    /\ inits = 0
    /\ ~keep_answer_visible
    /\ session_state.pos = 1

\* ------------------------------------------------------------------ C16
\* The session of a user who uploads one document and then only advances,
\* with the options left at their defaults (no-repeat mode on).  The window
\* of the latest draws is recorded in this specification only.
InitAdvancing ==
    /\ uploaded = NoUpload
    /\ no_repeats = TRUE
    /\ keep_answer_visible = FALSE
    /\ session_state = EmptySession
    /\ ui = "no_upload"
    /\ ret = NoCall
    /\ cycleDrawn = <<>>
    /\ run = <<>>
    /\ runKind = "none"
    /\ runN = -1
    /\ freshDeck = FALSE
    /\ inits = 0
    /\ tracking = TRUE
    /\ window = <<>>

FirstUpload == uploaded = NoUpload /\ Upload

NextAdvancing ==
    \/ FirstUpload
    \/ NextClick

\* The user does upload a file and keeps clicking "Nueva tarjeta".
SpecAdvancing ==
    /\ InitAdvancing
    /\ [][NextAdvancing]_vars
    /\ WF_vars(FirstUpload)
    /\ WF_vars(NextClick)

\* Page i is the card on display.
Displayed(i) ==
    /\ ui = "ok"
    /\ session_state.has_current_idx
    /\ session_state.current_idx = i

\* C16: a user who keeps advancing in no-repeat mode on n > 0 pages sees
\* every page infinitely often, and every 2n-1 consecutive draws contain
\* every index of 0..n-1.
C16_CyclicCoverage ==
    /\ \A i \in 0..(MaxPages - 1) :
          []<>(uploaded # NoUpload /\ (i >= uploaded \/ Displayed(i)))
    /\ []((uploaded > 0 /\ Len(window) = 2 * uploaded - 1) =>
            Range(window) = 0..(uploaded - 1))

C16_Witness ==
    /\ tracking
    /\ uploaded = MaxPages
    /\ Len(window) = 2 * MaxPages - 1
    /\ window[1] = window[Len(window)]

====
